---- MODULE Spec2Model ----
(***************************************************************************)
(* Construct Atlas (construct_atlas_app.py): a Streamlit script over a     *)
(* YAML knowledge base.  Streamlit re-executes the whole script on every   *)
(* widget interaction, so one action of this model is one interaction      *)
(* followed by one complete execution of the script (ScriptRun).           *)
(*                                                                         *)
(* Python values whose type the script depends on are records with a       *)
(* "type" field; a dict keeps its insertion order in "keys" and its        *)
(* entries in "val".  What a run renders is kept as the sequence of the    *)
(* elements it put on the page (ui.rendered) plus the values the           *)
(* properties read: the diagnostic, the construct card, the filtered       *)
(* models, the selection and the comparison table.  The documents below    *)
(* (DocFull, DocSparse, ...) are inputs, not part of the program.          *)
(***************************************************************************)
EXTENDS Naturals, Sequences, FiniteSets, TLC

VARIABLES
    disk,        \* contents of the three candidate files
    cache,       \* st.cache_data entry of load_kb
    reads,       \* how many times a candidate file was opened and parsed
    edits,       \* how many times the environment changed a candidate file
    activeTab,   \* tab shown by the browser (client side only)
    w_pick,      \* session state of the "Choose a construct" selectbox
    w_domain,    \* session state of the "Filter by domain" selectbox
    w_sel,       \* session state of the "Select models to compare" multiselect
    KB,          \* module global KB of the last run
    KB_PATH,     \* module global KB_PATH of the last run
    TAXON,       \* module global TAXON of the last run
    CONSTRUCTS,  \* module global CONSTRUCTS of the last run
    MODELS,      \* module global MODELS of the last run
    ui           \* what the last run put on the page

vars == <<disk, cache, reads, edits, activeTab, w_pick, w_domain, w_sel,
          KB, KB_PATH, TAXON, CONSTRUCTS, MODELS, ui>>

(* ---------------- bounds ---------------- *)
\* file opens after which a run that would open a file again is not explored
MaxReads == 2
\* changes the environment makes to the candidate files
MaxEdits == 1

(* ---------------- Python values ---------------- *)
PyNone == [type |-> "NoneType"]
Unset == [type |-> "unset"]
PyList(items) == [type |-> "list", items |-> items]
PyDict(keys, val) == [type |-> "dict", keys |-> keys, val |-> val]
PyStr(s) == [type |-> "str", v |-> s]
PyInt(n) == [type |-> "int", v |-> n]
EmptyDict == PyDict(<<>>, <<>>)
EmptyList == PyList(<<>>)
NoKey == "<None>"
NoPath == "<None>"

Range(s) == {s[i] : i \in 1..Len(s)}

\* bool(x) of a list or a dict
Truthy(x) ==
    CASE x.type = "list" -> Len(x.items) > 0
      [] x.type = "dict" -> Len(x.keys) > 0
      [] OTHER -> FALSE

\* d.get(k, default) of a dict
DictGet(d, k, default) == IF k \in DOMAIN d.val THEN d.val[k] ELSE default

\* r.get(k, default) of a record whose key order plays no part
RecGet(r, k, default) == IF k \in DOMAIN r THEN r[k] ELSE default

(* ---------------- candidate paths ---------------- *)
KB_PATHS == <<"<app>/constructs.yaml", "constructs.yaml", "data/constructs.yaml">>

(* ---------------- documents the candidate files may hold ---------------- *)
SelfControl ==
    [label |-> "Self-Control",
     definition |-> "overriding impulses",
     components |-> PyDict(<<"persistence", "inhibition", "urgency">>,
                           [persistence |-> PyStr("Low"),
                            inhibition |-> PyStr("strong"),
                            urgency |-> PyInt(7)])]

Grit ==
    [definition |-> "perseverance for long-term goals",
     components |-> PyDict(<<"persistence">>, [persistence |-> PyInt(3)])]

SelfRegulation == [label |-> "Self-Regulation"]

ExecutiveFunction ==
    [label |-> "Executive Function",
     components |-> PyDict(<<"inhibition">>, [inhibition |-> PyStr("MEDIUM")])]

StrengthModel ==
    [label |-> "Strength Model",
     domain |-> "general",
     dimensions |-> [level_of_analysis |-> "resource", conflict |-> "depletion"]]

ProcessModel ==
    [dimensions |-> [level_of_analysis |-> "situation", conflict |-> "desire-goal",
                     emotion_role |-> "target", cognitive_function |-> "appraisal"]]

ZimmermanModel ==
    [label |-> "Strength Model",
     domain |-> "education/SRL",
     key_papers |-> <<"Zimmerman 2000">>]

DimensionModel ==
    [label |-> "Dimension",
     domain |-> "education/SRL",
     dimensions |-> [emotion_role |-> "none"]]

DocFull ==
    PyDict(<<"schema_version", "components_taxonomy", "constructs", "models">>,
        [schema_version |-> "1",
         components_taxonomy |-> PyList(<<"inhibition", "planning", "persistence">>),
         constructs |-> PyDict(<<"self-control", "grit">>,
                               ("self-control" :> SelfControl) @@ ("grit" :> Grit)),
         models |-> PyDict(<<"strength", "process", "zimmerman">>,
                           [strength |-> StrengthModel,
                            process |-> ProcessModel,
                            zimmerman |-> ZimmermanModel])])

DocSparse ==
    PyDict(<<"constructs", "models">>,
        [constructs |-> PyDict(<<"self-regulation", "executive-function">>,
                               ("self-regulation" :> SelfRegulation)
                               @@ ("executive-function" :> ExecutiveFunction)),
         models |-> PyDict(<<"process", "dim">>,
                           [process |-> ProcessModel, dim |-> DimensionModel])])

DocNoConstructs ==
    PyDict(<<"components_taxonomy">>,
        [components_taxonomy |-> PyList(<<"inhibition">>)])

DocBadConstructs ==
    PyDict(<<"constructs", "models">>,
        [constructs |-> PyList(<<"self-control">>),
         models |-> PyDict(<<"strength">>, [strength |-> StrengthModel])])

DocEmptyConstructs ==
    PyDict(<<"constructs">>, [constructs |-> EmptyDict])

Absent == [kind |-> "absent"]
Malformed == [kind |-> "malformed"]
Yaml(data) == [kind |-> "yaml", data |-> data]

\* what each candidate file may hold
Contents(i) ==
    CASE i = 1 -> {Absent, Malformed, Yaml(PyNone), Yaml(PyList(<<"x">>)),
                   Yaml(DocFull), Yaml(DocSparse), Yaml(DocNoConstructs),
                   Yaml(DocBadConstructs), Yaml(DocEmptyConstructs)}
      [] i = 2 -> {Absent, Yaml(PyList(<<"x">>)), Yaml(DocFull)}
      [] OTHER -> {Absent, Yaml(DocSparse)}

(* ---------------- KB loader ---------------- *)
\* p.exists()
Exists(d, i) == d[i].kind # "absent"

\* the first candidate that exists, 0 when none does (the for/if of load_kb)
FirstExisting(d) ==
    IF \E i \in 1..Len(KB_PATHS) : Exists(d, i)
    THEN CHOOSE i \in 1..Len(KB_PATHS) :
            Exists(d, i) /\ \A j \in 1..(i - 1) : ~Exists(d, j)
    ELSE 0

\* The undecorated load_kb: opens the first existing candidate and returns
\* whatever yaml.safe_load gives, or lets its exception escape.
load_kb_body(d) ==
    LET i == FirstExisting(d) IN
    IF i = 0
    THEN [raised |-> FALSE, data |-> PyNone, path |-> NoPath, opened |-> 0]
    ELSE IF d[i].kind = "malformed"
    THEN [raised |-> TRUE, data |-> PyNone, path |-> NoPath, opened |-> 1]
    ELSE [raised |-> FALSE, data |-> d[i].data, path |-> KB_PATHS[i], opened |-> 1]

NoCache == [hit |-> FALSE, data |-> PyNone, path |-> NoPath]

\* a plausible slip: load_kb without @st.cache_data, every run reads the file
load_kb_uncached(c, d) ==
    LET r == load_kb_body(d) IN
    [raised |-> r.raised, data |-> r.data, path |-> r.path, opened |-> r.opened,
     cache |-> IF r.raised THEN c
               ELSE [hit |-> TRUE, data |-> r.data, path |-> r.path]]

\* load_kb under @st.cache_data: a stored return value is handed back without
\* running the body; a call that raises stores nothing.
load_kb(c, d) ==
    IF c.hit
    THEN [raised |-> FALSE, data |-> c.data, path |-> c.path, opened |-> 0, cache |-> c]
    ELSE LET r == load_kb_body(d) IN
         [raised |-> r.raised, data |-> r.data, path |-> r.path, opened |-> r.opened,
          cache |-> IF r.raised THEN c
                    ELSE [hit |-> TRUE, data |-> r.data, path |-> r.path]]

\* a plausible slip: only the None case is caught
LoadGuardNoneOnly(kb) == kb.type = "NoneType"

\* KB is None or not isinstance(KB, dict)
LoadGuard(kb) == kb.type = "NoneType" \/ kb.type # "dict"

(* ---------------- widgets (Streamlit keeps a widget's value while the ---- *)
(* ---------------- widget is rendered again with the same options) ------- *)
NoWidget == [set |-> FALSE, options |-> <<>>, value |-> NoKey]
NoMulti == [set |-> FALSE, options |-> <<>>, value |-> <<>>]

\* st.selectbox(label, options, index): the stored choice, else options[index],
\* and None when there is nothing to choose from
Selectbox(w, options, index) ==
    IF w.set /\ w.options = options THEN w.value
    ELSE IF Len(options) > 0 THEN options[index + 1]
    ELSE NoKey

\* st.multiselect(label, options, default)
Multiselect(w, options, default) ==
    IF w.set /\ w.options = options THEN w.value ELSE default

(* ---------------- UI helpers ---------------- *)
Placeholder == "<em-dash>"

DigitText == <<"0", "1", "2", "3", "4", "5", "6", "7", "8", "9">>

\* str(strength) inside the f-string of a pill
StrengthText(s) == IF s.type = "str" THEN s.v ELSE DigitText[s.v + 1]

\* show_construct_card: the heading, the definition and one chip per entry of
\* c["components"], in the order of that mapping, with the strength as written
show_construct_card(key, c) ==
    [title |-> RecGet(c, "label", key),
     definition |-> RecGet(c, "definition", Placeholder),
     chips |-> IF "components" \in DOMAIN c
               THEN [i \in 1..Len(c.components.keys) |->
                        [comp |-> c.components.keys[i],
                         text |-> StrengthText(c.components.val[c.components.keys[i]])]]
               ELSE <<>>]

NoCard == [title |-> NoKey, definition |-> NoKey, chips |-> <<>>]

(* ---------------- Explore Constructs ---------------- *)
\* Python's order of the construct keys the documents use
KeyOrder == <<"executive-function", "grit", "self-control", "self-regulation">>

\* sorted(keys)
Sorted(keys) == SelectSeq(KeyOrder, LAMBDA k : k \in Range(keys))

\* keys_sorted.index(k), counted from 0
IndexOf(s, k) == (CHOOSE i \in 1..Len(s) : s[i] = k) - 1

\* index=keys_sorted.index("self-control") if "self-control" in keys_sorted else 0
DefaultIndex(keys_sorted) ==
    IF "self-control" \in Range(keys_sorted) THEN IndexOf(keys_sorted, "self-control") ELSE 0

\* the rest of page_explore_constructs once the selectbox has answered
ExplorePicked(head, chipsT, constructs, keys_sorted, pick) ==
    IF pick \notin DOMAIN constructs.val
    THEN \* CONSTRUCTS[pick] of a key the dict does not hold
         [crashed |-> TRUE, exc |-> "KeyError",
          rendered |-> head \o <<"construct_select">>,
          taxchips |-> chipsT, options |-> keys_sorted, pick |-> pick, card |-> NoCard,
          w_pick |-> [set |-> TRUE, options |-> keys_sorted, value |-> pick]]
    ELSE [crashed |-> FALSE, exc |-> NoKey,
          rendered |-> head \o <<"construct_select", "card", "browse_table">>,
          taxchips |-> chipsT, options |-> keys_sorted, pick |-> pick,
          card |-> show_construct_card(pick, constructs.val[pick]),
          w_pick |-> [set |-> TRUE, options |-> keys_sorted, value |-> pick]]

\* the selectbox over the sorted keys
ExploreSorted(head, chipsT, constructs, keys_sorted, w) ==
    ExplorePicked(head, chipsT, constructs, keys_sorted,
                  Selectbox(w, keys_sorted, DefaultIndex(keys_sorted)))

page_explore_constructs(taxon, constructs, w) ==
    IF constructs.type # "dict"
    THEN \* CONSTRUCTS.keys() of something that is not a dict
         [crashed |-> TRUE, exc |-> "AttributeError",
          rendered |-> <<"explore_title">>
                       \o (IF Truthy(taxon) THEN <<"taxonomy_chips">> ELSE <<>>),
          taxchips |-> IF Truthy(taxon) THEN taxon.items ELSE <<>>,
          options |-> <<>>, pick |-> NoKey, card |-> NoCard,
          w_pick |-> NoWidget]
    ELSE ExploreSorted(<<"explore_title">>
                         \o (IF Truthy(taxon) THEN <<"taxonomy_chips">> ELSE <<>>),
                       IF Truthy(taxon) THEN taxon.items ELSE <<>>,
                       constructs, Sorted(constructs.keys), w)

(* ---------------- Compare Models ---------------- *)
DomainOptions == <<"all", "general", "education/SRL">>

dims == <<"level_of_analysis", "conflict", "emotion_role", "cognitive_function">>

nice == [level_of_analysis |-> "Level of Analysis",
         conflict |-> "Conflict",
         emotion_role |-> "Emotion Role",
         cognitive_function |-> "Cognition Function"]

\* a plausible slip: v.get("domain") == domain, a model without a domain is dropped
ModelMatchesNoDefault(v, domain) ==
    domain = "all" \/ ("domain" \in DOMAIN v /\ v.domain = domain)

\* domain=="all" or v.get("domain","general")==domain
ModelMatches(v, domain) == domain = "all" \/ RecGet(v, "domain", "general") = domain

\* {k:v for k,v in MODELS.items() if ...}: a new dict, in the order of MODELS
FilterModels(models, domain) ==
    LET keep == SelectSeq(models.keys, LAMBDA k : ModelMatches(models.val[k], domain))
    IN PyDict(keep, [k \in Range(keep) |-> models.val[k]])

\* keys[:n]
Prefix(s, n) == SubSeq(s, 1, IF Len(s) < n THEN Len(s) ELSE n)

\* data[name] = col on an insertion-ordered dict: an existing key keeps its
\* place and takes the new value, a new key goes last
DictAssign(data, name, col) ==
    IF \E j \in 1..Len(data) : data[j].name = name
    THEN [j \in 1..Len(data) |->
            IF data[j].name = name THEN [name |-> name, col |-> col] ELSE data[j]]
    ELSE Append(data, [name |-> name, col |-> col])

\* [dd.get(d, placeholder) for d in dims] with dd = m.get("dimensions", {})
ModelColumn(m) ==
    LET dd == RecGet(m, "dimensions", <<>>)
    IN [i \in 1..Len(dims) |-> RecGet(dd, dims[i], Placeholder)]

\* the loop "for k in sel" over the data dict, from the i-th selected key on
RECURSIVE FillData(_, _, _, _)
FillData(data, filtered, sel, i) ==
    IF i > Len(sel) THEN data
    ELSE LET m == filtered.val[sel[i]]
         IN FillData(DictAssign(data, RecGet(m, "label", sel[i]), ModelColumn(m)),
                     filtered, sel, i + 1)

\* the dict the DataFrame, the table and the CSV are made from
BuildData(filtered, sel) ==
    FillData(<<[name |-> "Dimension", col |-> [i \in 1..Len(dims) |-> nice[dims[i]]]]>>,
             filtered, sel, 1)

\* the Key References expanders
References(filtered, sel) ==
    [i \in 1..Len(sel) |->
        [label |-> RecGet(filtered.val[sel[i]], "label", sel[i]),
         papers |-> RecGet(filtered.val[sel[i]], "key_papers", <<>>)]]

NoCompare ==
    [crashed |-> FALSE, exc |-> NoKey, rendered |-> <<>>, domain |-> NoKey,
     filtered |-> EmptyDict, keys |-> <<>>, sel |-> <<>>, table |-> <<>>,
     refs |-> <<>>, w_domain |-> NoWidget, w_sel |-> NoMulti]

\* the rest of page_compare_models once the filter and the selection are known
CompareSelected(domain, models_filtered, sel, wd, ws) ==
    [NoCompare EXCEPT
        !.domain = domain, !.filtered = models_filtered,
        !.keys = models_filtered.keys, !.sel = sel,
        !.w_domain = [set |-> TRUE, options |-> DomainOptions, value |-> domain],
        !.w_sel = [set |-> TRUE, options |-> models_filtered.keys, value |-> sel],
        !.crashed = \E i \in 1..Len(sel) : sel[i] \notin DOMAIN models_filtered.val,
        !.exc = IF \E i \in 1..Len(sel) : sel[i] \notin DOMAIN models_filtered.val
                THEN "KeyError" ELSE NoKey,
        !.rendered =
            IF Len(sel) = 0
            THEN \* if not sel: st.info(...); return
                 <<"compare_title", "domain_select", "model_multiselect", "select_info">>
            ELSE IF \E i \in 1..Len(sel) : sel[i] \notin DOMAIN models_filtered.val
            THEN \* models_filtered[k] of a key the filtered dict does not hold
                 <<"compare_title", "domain_select", "model_multiselect">>
            ELSE <<"compare_title", "domain_select", "model_multiselect", "table",
                   "download_button", "references">>,
        !.table = IF \A i \in 1..Len(sel) : sel[i] \in DOMAIN models_filtered.val
                  THEN (IF Len(sel) = 0 THEN <<>> ELSE BuildData(models_filtered, sel))
                  ELSE <<>>,
        !.refs = IF \A i \in 1..Len(sel) : sel[i] \in DOMAIN models_filtered.val
                 THEN References(models_filtered, sel)
                 ELSE <<>>]

\* the multiselect over the keys of the filtered dict, default keys[:3]
CompareFiltered(domain, models_filtered, wd, ws) ==
    CompareSelected(domain, models_filtered,
                    Multiselect(ws, models_filtered.keys, Prefix(models_filtered.keys, 3)),
                    wd, ws)

page_compare_models(models, wd, ws) ==
    IF ~Truthy(models)
    THEN \* if not MODELS: st.error(...); return
         [NoCompare EXCEPT !.rendered = <<"compare_title", "no_models_error">>]
    ELSE IF models.type # "dict"
    THEN \* MODELS.items() of something that is not a dict
         [NoCompare EXCEPT !.crashed = TRUE, !.exc = "AttributeError",
                           !.rendered = <<"compare_title", "domain_select">>,
                           !.domain = Selectbox(wd, DomainOptions, 0)]
    ELSE CompareFiltered(Selectbox(wd, DomainOptions, 0),
                         FilterModels(models, Selectbox(wd, DomainOptions, 0)), wd, ws)

(* ---------------- one execution of the script ---------------- *)
NoUi ==
    [outcome |-> "not_run", exc |-> NoKey, rendered |-> <<>>, diag |-> <<>>,
     taxchips |-> <<>>, options |-> <<>>, pick |-> NoKey, card |-> NoCard,
     domain |-> NoKey, filtered |-> EmptyDict, keys |-> <<>>, sel |-> <<>>,
     table |-> <<>>, refs |-> <<>>]

\* TAXON = KB.get("components_taxonomy", [])
TaxonOf(kb) == DictGet(kb, "components_taxonomy", EmptyList)

\* CONSTRUCTS = KB.get("constructs", {})
ConstructsOf(kb) == DictGet(kb, "constructs", EmptyDict)

\* MODELS = KB.get("models", {})
ModelsOf(kb) == DictGet(kb, "models", EmptyDict)

\* what a run that ends before line 34 leaves behind
Blank(L) ==
    [cache |-> L.cache, opened |-> L.opened,
     KB |-> Unset, KB_PATH |-> NoPath,
     TAXON |-> Unset, CONSTRUCTS |-> Unset, MODELS |-> Unset,
     w_pick |-> NoWidget, w_domain |-> NoWidget, w_sel |-> NoMulti,
     ui |-> NoUi]

\* the router's result: E is what page_explore_constructs did, M what
\* page_compare_models did (nothing when E raised)
Routed(L, E, M) ==
    [cache |-> L.cache, opened |-> L.opened,
     KB |-> L.data, KB_PATH |-> L.path,
     TAXON |-> TaxonOf(L.data), CONSTRUCTS |-> ConstructsOf(L.data),
     MODELS |-> ModelsOf(L.data),
     w_pick |-> E.w_pick, w_domain |-> M.w_domain, w_sel |-> M.w_sel,
     ui |-> [outcome |-> IF E.crashed \/ M.crashed THEN "crash" ELSE "ok",
             exc |-> IF E.crashed THEN E.exc ELSE M.exc,
             rendered |-> <<"debug_summary", "tabs">> \o E.rendered \o M.rendered
                          \o (IF E.crashed \/ M.crashed THEN <<"exception">> ELSE <<>>),
             diag |-> <<>>,
             taxchips |-> E.taxchips, options |-> E.options, pick |-> E.pick,
             card |-> E.card,
             domain |-> M.domain, filtered |-> M.filtered, keys |-> M.keys,
             sel |-> M.sel, table |-> M.table, refs |-> M.refs]]

\* with tabs[0]: page_explore_constructs(); with tabs[1]: page_compare_models()
Router(L, E, wd, ws) ==
    Routed(L, E, IF E.crashed THEN NoCompare
                 ELSE page_compare_models(ModelsOf(L.data), wd, ws))

\* The script after "KB, KB_PATH = load_kb()" has given L.  An exception nobody
\* handles ends the run where it is raised (outcome "crash"); st.stop() ends it
\* after the error box (outcome "load_failure").
AfterLoad(L, wp, wd, ws) ==
    IF L.raised
    THEN \* yaml.safe_load raised inside load_kb
         [Blank(L) EXCEPT !.ui = [NoUi EXCEPT !.outcome = "crash", !.exc = "YAMLError",
                                              !.rendered = <<"exception">>]]
    ELSE IF LoadGuard(L.data)
    THEN \* st.error(... Tried: every path of KB_PATHS); st.stop()
         [Blank(L) EXCEPT !.KB = L.data, !.KB_PATH = L.path,
                          !.ui = [NoUi EXCEPT !.outcome = "load_failure",
                                              !.rendered = <<"load_error">>,
                                              !.diag = KB_PATHS]]
    ELSE IF L.data.type # "dict"
    THEN \* KB.keys() of something that is not a dict (debug summary)
         [Blank(L) EXCEPT !.KB = L.data, !.KB_PATH = L.path,
                          !.ui = [NoUi EXCEPT !.outcome = "crash",
                                              !.exc = "AttributeError",
                                              !.rendered = <<"exception">>]]
    ELSE Router(L, page_explore_constructs(TaxonOf(L.data), ConstructsOf(L.data), wp),
                wd, ws)

\* one execution of the script, given the cache, the files and the widgets'
\* session state
ScriptRun(c, d, wp, wd, ws) == AfterLoad(load_kb(c, d), wp, wd, ws)

(* ---------------- the state machine ---------------- *)
TabNames == <<"Explore Constructs", "Compare Models">>

Shown(x) == x \in Range(ui.rendered)

\* the ordered selections a multiselect over `options` can hold
Selections(options) ==
    {s \in UNION {[1..n -> Range(options)] : n \in 0..Len(options)} :
        \A i, j \in 1..Len(s) : i # j => s[i] # s[j]}

Init ==
    /\ \E a \in Contents(1), b \in Contents(2), c \in Contents(3) : disk = <<a, b, c>>
    /\ cache = NoCache
    /\ reads = 0
    /\ edits = 0
    /\ activeTab = 1
    /\ w_pick = NoWidget
    /\ w_domain = NoWidget
    /\ w_sel = NoMulti
    /\ KB = Unset
    /\ KB_PATH = NoPath
    /\ TAXON = Unset
    /\ CONSTRUCTS = Unset
    /\ MODELS = Unset
    /\ ui = NoUi

\* Streamlit executes the script with the widgets' state wp, wd, ws
Run(wp, wd, ws) ==
    /\ cache.hit \/ reads < MaxReads
    /\ \E R \in {ScriptRun(cache, disk, wp, wd, ws)} :
        /\ cache' = R.cache
        /\ reads' = reads + R.opened
        /\ KB' = R.KB
        /\ KB_PATH' = R.KB_PATH
        /\ TAXON' = R.TAXON
        /\ CONSTRUCTS' = R.CONSTRUCTS
        /\ MODELS' = R.MODELS
        /\ w_pick' = R.w_pick
        /\ w_domain' = R.w_domain
        /\ w_sel' = R.w_sel
        /\ ui' = R.ui
    /\ UNCHANGED <<disk, edits, activeTab>>

\* the session starts, or the user asks for a rerun
Rerun == Run(w_pick, w_domain, w_sel)

\* the user picks a construct in the selectbox
ChooseConstruct ==
    /\ Shown("construct_select")
    /\ \E k \in Range(ui.options) : Run([w_pick EXCEPT !.value = k], w_domain, w_sel)

\* the user picks a domain in the selectbox
ChangeDomain ==
    /\ Shown("domain_select")
    /\ \E dom \in Range(DomainOptions) :
          Run(w_pick, [w_domain EXCEPT !.value = dom], w_sel)

\* the user changes the multiselect
SelectModels ==
    /\ Shown("model_multiselect")
    /\ \E s \in Selections(ui.keys) : Run(w_pick, w_domain, [w_sel EXCEPT !.value = s])

\* the user presses the download button
DownloadCSV ==
    /\ Shown("download_button")
    /\ Run(w_pick, w_domain, w_sel)

\* the user clicks a tab: the browser switches, the script does not run
SwitchTab ==
    /\ Shown("tabs")
    /\ \E t \in 1..Len(TabNames) : t # activeTab /\ activeTab' = t
    /\ UNCHANGED <<disk, cache, reads, edits, w_pick, w_domain, w_sel,
                   KB, KB_PATH, TAXON, CONSTRUCTS, MODELS, ui>>

\* the environment creates, removes or rewrites a candidate file
EditFile ==
    /\ edits < MaxEdits
    /\ \E i \in 1..Len(KB_PATHS) : \E content \in Contents(i) :
          /\ content # disk[i]
          /\ disk' = [disk EXCEPT ![i] = content]
    /\ edits' = edits + 1
    /\ UNCHANGED <<cache, reads, activeTab, w_pick, w_domain, w_sel,
                   KB, KB_PATH, TAXON, CONSTRUCTS, MODELS, ui>>

Next ==
    \/ Rerun
    \/ ChooseConstruct
    \/ ChangeDomain
    \/ SelectModels
    \/ DownloadCSV
    \/ SwitchTab
    \/ EditFile

Spec == Init /\ [][Next]_vars

(* ---------------- properties ---------------- *)
Ran == ui.outcome # "not_run"

\* candidate i holds a document that parses to a mapping
IsMapping(d, i) == d[i].kind = "yaml" /\ d[i].data.type = "dict"

\* candidate i is missing, or parses to something that is not a mapping
NoMapping(d, i) == d[i].kind = "absent" \/ (d[i].kind = "yaml" /\ d[i].data.type # "dict")

\* C1: load_kb returns the content and the path of the first candidate that
\* exists and parses as a mapping, also when an earlier candidate exists and
\* holds something that is not a mapping.  (While edits = 0 the files are the
\* ones load_kb saw.)
C1_ReturnsFirstMapping ==
    (cache.hit /\ edits = 0) =>
        \A i \in 1..Len(KB_PATHS) :
            (IsMapping(disk, i) /\ \A j \in 1..(i - 1) : NoMapping(disk, j))
                => (cache.data = disk[i].data /\ cache.path = KB_PATHS[i])

\* the load gave None or something that is not a mapping
LoadFailed == KB.type \notin {"unset", "dict"}

\* C2 (state part): after a load that found no candidate or no mapping the
\* run shows the error naming every candidate path and renders neither page.
C2_Aborted ==
    /\ LoadFailed =>
        /\ ui.outcome = "load_failure"
        /\ ui.rendered = <<"load_error">>
        /\ ui.diag = KB_PATHS
        /\ ~Shown("explore_title")
        /\ ~Shown("compare_title")
    /\ (Ran /\ edits = 0 /\ FirstExisting(disk) = 0) => (LoadFailed /\ KB = PyNone)
    /\ (/\ Ran
        /\ edits = 0
        /\ FirstExisting(disk) # 0
        /\ disk[FirstExisting(disk)].kind = "yaml"
        /\ disk[FirstExisting(disk)].data.type # "dict") => LoadFailed

\* C2: a failed load aborts rendering with the diagnostic listing every
\* candidate path, and once the load has failed no run opens a file again.
C2_LoadFailureAborts ==
    [](C2_Aborted) /\ [][LoadFailed => (reads' = reads /\ LoadFailed')]_vars

\* C2 witness: a run aborted on a list found in the first candidate while the
\* second candidate holds a mapping.
C2_Witness ==
    /\ ui.outcome = "load_failure"
    /\ KB.type = "list"
    /\ KB_PATH = KB_PATHS[1]
    /\ reads = 1
    /\ IsMapping(disk, 2)

\* C3: a mapping without a `constructs` mapping ends the run in a reported
\* schema error before any page is rendered, never in an unhandled exception.
C3_MissingConstructsReported ==
    (KB.type = "dict"
     /\ ("constructs" \notin DOMAIN KB.val \/ KB.val.constructs.type # "dict"))
        => /\ ui.outcome # "crash"
           /\ Shown("schema_error")
           /\ ~Shown("explore_title")
           /\ ~Shown("compare_title")

\* C4: without a `components_taxonomy` key the run goes on with a non-empty
\* default taxonomy and shows a notice of the absence.
C4_DefaultTaxonomy ==
    (KB.type = "dict" /\ "components_taxonomy" \notin DOMAIN KB.val)
        => /\ TAXON.type = "list"
           /\ Len(TAXON.items) > 0
           /\ Shown("taxonomy_notice")

\* the cell the table owes model m in row r
ExpectedCell(m, r) ==
    IF "dimensions" \in DOMAIN m /\ dims[r] \in DOMAIN m.dimensions
    THEN m.dimensions[dims[r]]
    ELSE Placeholder

\* C5: the comparison table has the dimension-label column and then exactly
\* one column per selected model key, in selection order, each with one cell
\* per dimension in the fixed order holding the model's value or the
\* placeholder.
C5_OneColumnPerSelectedKey ==
    Shown("table") =>
        /\ Len(ui.table) = Len(ui.sel) + 1
        /\ ui.table[1].col = <<"Level of Analysis", "Conflict", "Emotion Role",
                               "Cognition Function">>
        /\ \A i \in 1..Len(ui.sel) :
              /\ Len(ui.table[i + 1].col) = Len(dims)
              /\ \A r \in 1..Len(dims) :
                    ui.table[i + 1].col[r] = ExpectedCell(MODELS.val[ui.sel[i]], r)

\* the place of k in s
Pos(s, k) == CHOOSE i \in 1..Len(s) : s[i] = k

\* the domain a model counts under
DomainOf(v) == IF "domain" \in DOMAIN v THEN v.domain ELSE "general"

\* C6: the filtered collection holds exactly the models of the chosen domain
\* (all of them under "all", a model without `domain` under "general"), in
\* document order and unchanged, and every selected key is one of its keys.
C6_DomainFilter ==
    Shown("model_multiselect") =>
        /\ ui.domain \in Range(DomainOptions)
        /\ Range(ui.keys) \subseteq Range(MODELS.keys)
        /\ \A k \in Range(MODELS.keys) :
              (k \in Range(ui.keys))
                <=> (ui.domain = "all" \/ DomainOf(MODELS.val[k]) = ui.domain)
        /\ \A i, j \in 1..Len(ui.keys) :
              i < j => Pos(MODELS.keys, ui.keys[i]) < Pos(MODELS.keys, ui.keys[j])
        /\ (ui.domain = "all" => ui.keys = MODELS.keys)
        /\ DOMAIN ui.filtered.val = Range(ui.keys)
        /\ \A k \in Range(ui.keys) : ui.filtered.val[k] = MODELS.val[k]
        /\ \A i \in 1..Len(ui.sel) : ui.sel[i] \in Range(ui.keys)
        /\ ui.exc # "KeyError"

\* C6 witness: under "general" a model without `domain` is kept, an
\* education/SRL model is dropped, and two kept models are selected.
C6_Witness ==
    /\ Shown("table")
    /\ ui.domain = "general"
    /\ ui.sel = <<"process", "strength">>
    /\ Len(ui.keys) < Len(MODELS.keys)

\* C7: within a session the knowledge-base file is opened and parsed at most
\* once, whatever the user does.
C7_ReadAtMostOnce == reads <= 1

\* C8: once loaded, the knowledge base (the cached load and the globals KB,
\* KB_PATH, TAXON, CONSTRUCTS, MODELS made from it) is the same after every
\* interaction, whatever happens to the files meanwhile.
C8_KnowledgeBaseImmutable ==
    [][cache.hit =>
          /\ cache' = cache
          /\ KB' = cache.data
          /\ KB' = KB
          /\ KB_PATH' = KB_PATH
          /\ TAXON' = TAXON
          /\ CONSTRUCTS' = CONSTRUCTS
          /\ MODELS' = MODELS]_vars

\* C8 witness: the loaded document is still in use after interactions on both
\* pages although the first candidate file has since become unreadable.
C8_Witness ==
    /\ cache.hit
    /\ edits > 0
    /\ disk[1] = Malformed
    /\ KB = DocFull
    /\ Shown("table")
    /\ ui.domain = "education/SRL"
    /\ ui.pick = "grit"
    /\ activeTab = 2

\* C9: what is shown for a construct's components is one integer in 0..3 per
\* taxonomy dimension, in taxonomy order (labels resolved, anything missing
\* or unknown as 0).
C9_ComponentVector ==
    Shown("card") =>
        /\ Len(ui.card.chips) = Len(TAXON.items)
        /\ \A i \in 1..Len(ui.card.chips) :
              /\ ui.card.chips[i].comp = TAXON.items[i]
              /\ ui.card.chips[i].text \in {"0", "1", "2", "3"}

\* C10: the key the Explore page looks up is a key of the constructs
\* collection, also when that collection is empty, so the lookup never fails.
C10_LookupKeyExists ==
    Shown("construct_select") =>
        /\ ui.pick \in Range(CONSTRUCTS.keys)
        /\ ui.exc # "KeyError"
====
